---- MODULE Spec2Model ----
(***************************************************************************)
(* Model of llm/llama.go: the llama.cpp runner supervisor (newLlama,       *)
(* waitForServer, Close, Ping) and the HTTP client of the runner (Predict, *)
(* Encode, Decode, Embedding, SetOptions).                                 *)
(*                                                                         *)
(* The specifications share the variables:                                 *)
(*   SpecStart    one call of newLlama against a subprocess environment    *)
(*   SpecPredict  one call of Predict against a runner's HTTP server       *)
(*   SpecCodec    Encode followed by Decode of the returned tokens, or     *)
(*                Embedding                                                *)
(*   SpecClient   either of the last two: every operation of the client    *)
(*   SpecShared   two Predict calls and SetOptions on one runner           *)
(***************************************************************************)
EXTENDS Integers, Sequences, FiniteSets, TLC

(***************************************************************************)
(* Program constants.                                                      *)
(***************************************************************************)
\* for try := 0; try < 3; try++                      (llama.go:345)
MaxTries == 3
\* rand.Intn(65535-49152) + 49152                    (llama.go:346)
PortLimit == 65535
PortBase == 49152
\* expiresAt := time.Now().Add(45 * time.Second), in ms   (llama.go:382)
PollWindowMs == 45000
\* time.NewTicker(200 * time.Millisecond), in ms     (llama.go:383)
TickMs == 200
\* if len(adapters) > 1                              (llama.go:304)
AdapterLimit == 1
\* http.StatusOK                                     (llama.go:733)
StatusOK == 200
\* if resp.StatusCode >= 400                         (llama.go:526,618,666)
StatusErrorFloor == 400

(***************************************************************************)
(* Bounds of the model.                                                    *)
(***************************************************************************)
\* the largest number of adapter paths a caller passes
MaxAdapters == 2
\* the largest number of lines the completion response carries
MaxLines == 3
\* the longest text handed to Encode in SpecCodec
MaxTextLen == 3
\* the longest prior context (in tokens) handed to Predict
MaxPrevLen == 1
\* the largest number of lines each of two concurrent calls reads
MaxCallLines == 2
\* the largest number of SetOptions calls made while the two calls run
MaxSetOptions == 1

VARIABLES
    \* ---- newLlama ----
    modelExists,    \* os.Stat(model) succeeds
    runnerExists,   \* os.Stat(runner.Path) succeeds
    adapters,       \* len(adapters)
    pc,             \* position of the newLlama call
    try,            \* the loop variable of the retry loop
    cmds,           \* one record per attempt: the llama value built in it
    elapsed,        \* ms since waitForServer read time.Now()
    probe,          \* result of the last Ping of the current attempt
    ret,            \* what newLlama returned
    \* ---- Predict ----
    cancelled,      \* the caller's ctx is cancelled (ctx.Done() is closed)
    cancelAt,       \* where the call was when ctx was cancelled (history)
    prevContext,    \* argument prevContext []int
    prompt,         \* argument prompt string
    ppc,            \* position of the Predict call
    reqs,           \* the HTTP requests issued so far, in order (history)
    nextContext,    \* var nextContext strings.Builder
    body,           \* the lines scanner.Scan() has returned so far
    bodyEnd,        \* how the response body ended: open | eof | err
    resps,          \* the responses received, resps[i] answering reqs[i]
    fnCalls,        \* the api.GenerateResponse values passed to fn, in order
    pret,           \* what Predict returned
    \* ---- Encode, then Decode ----
    cText,          \* the text handed to Encode
    cpc,            \* encode | decode | embed | done
    cTokens,        \* the tokens Encode returned
    cDecoded,       \* the text Decode returned
    cEmbedding,     \* the vector Embedding returned
    cLast,          \* the call that returned last: none | encode | decode | embed
    cResp,          \* the response that call received
    cErr,           \* the error the last call returned
    \* ---- two Predict calls and SetOptions on one runner ----
    calls,          \* per call: its arguments, position, stream and results
    nextContexts,   \* the strings.Builder values, one per call frame
    llmOptions      \* llm.Options, the write in progress and the writes made

startVars == <<modelExists, runnerExists, adapters, pc, try, cmds, elapsed,
               probe, ret>>

predictVars == <<cancelled, cancelAt, prevContext, prompt, ppc, reqs, resps,
                 nextContext, body, bodyEnd, fnCalls, pret>>

codecVars == <<cText, cpc, cTokens, cDecoded, cEmbedding, cLast, cResp, cErr>>

sharedVars == <<calls, nextContexts, llmOptions>>

vars == <<startVars, predictVars, codecVars, sharedVars>>

(***************************************************************************)
(* newLlama                                                                *)
(***************************************************************************)
\* rand.Intn(n) returns a value of [0, n): the samples the model draws
RandSamples(n) == {0, n - 1}

\* a draw that can return the end of the range too
PortChoices_Inclusive ==
    {r + PortBase : r \in RandSamples(PortLimit - PortBase + 1)}

\* strconv.Itoa(n) for n >= 0: the decimal digits of n
RECURSIVE Itoa(_)
Itoa(n) == IF n < 10 THEN <<n>> ELSE Itoa(n \div 10) \o <<n % 10>>

\* the number the subprocess reads from a decimal argument
RECURSIVE Atoi(_)
Atoi(digits) ==
    IF digits = <<>> THEN 0
    ELSE Atoi(SubSeq(digits, 1, Len(digits) - 1)) * 10 + digits[Len(digits)]

\* port := rand.Intn(65535-49152) + 49152
PortChoices == {r + PortBase : r \in RandSamples(PortLimit - PortBase)}

\* The llama value of one attempt: its port and its exec.Cmd.
\*   PortArg    the argument after "--port": strconv.Itoa(port)
\*   state      unstarted | startfailed | running | exited
\*   listening  the subprocess accepts HTTP connections on the port
\*   cancelled  llm.Cancel() was called (CommandContext kills the process)
\*   waited     llm.Cmd.Wait() has returned
\*   exit       how the process exited: none | zero | nonzero (a failure
\*              status, or the signal that killed it)
NewCmd(port) ==
    [Port |-> port, PortArg |-> Itoa(port), state |-> "unstarted",
     listening |-> FALSE, cancelled |-> FALSE, waited |-> FALSE,
     exit |-> "none"]

\* the port the subprocess of an attempt binds to
ListenPort(llm) == Atoi(llm.PortArg)

\* the port Ping addresses: fmt.Sprintf("http://127.0.0.1:%d", llm.Port)
PingTarget(llm) == llm.Port

\* the port Predict, Encode, Decode and Embedding address:
\* fmt.Sprintf("http://127.0.0.1:%d/...", llm.Port)
RequestTarget(llm) == llm.Port

\* the llama value of the running attempt
Cur == cmds[Len(cmds)]

SetCur(field, value) == [cmds EXCEPT ![Len(cmds)][field] = value]

StartInit ==
    /\ modelExists \in BOOLEAN
    /\ runnerExists \in BOOLEAN
    /\ adapters \in 0..MaxAdapters
    /\ pc = "stat_model"
    /\ try = 0
    /\ cmds = <<>>
    /\ elapsed = 0
    /\ probe = "none"
    /\ ret = "none"

\* if _, err := os.Stat(model); err != nil { return nil, err }
StatModel ==
    /\ UNCHANGED <<predictVars, codecVars, sharedVars>>
    /\ pc = "stat_model"
    /\ IF modelExists
         THEN pc' = "stat_runner" /\ ret' = ret
         ELSE pc' = "done" /\ ret' = "ErrStatModel"
    /\ UNCHANGED <<modelExists, runnerExists, adapters, try, cmds, elapsed, probe>>

\* a newLlama that does not look at the error of os.Stat(runner.Path)
StatRunner_Unchecked ==
    /\ UNCHANGED <<predictVars, codecVars, sharedVars>>
    /\ pc = "stat_runner"
    /\ pc' = "check_adapters"
    /\ UNCHANGED <<modelExists, runnerExists, adapters, try, cmds, elapsed, probe, ret>>

\* if _, err := os.Stat(runner.Path); err != nil { return nil, err }
StatRunner ==
    /\ UNCHANGED <<predictVars, codecVars, sharedVars>>
    /\ pc = "stat_runner"
    /\ IF runnerExists
         THEN pc' = "check_adapters" /\ ret' = ret
         ELSE pc' = "done" /\ ret' = "ErrStatRunner"
    /\ UNCHANGED <<modelExists, runnerExists, adapters, try, cmds, elapsed, probe>>

\* a guard that lets two adapters through
TooManyAdapters_OffByOne == adapters > AdapterLimit + 1

\* len(adapters) > 1
TooManyAdapters == adapters > AdapterLimit

\* if len(adapters) > 1 { return nil, errors.New("ollama supports only one lora adapter...") }
CheckAdapters ==
    /\ UNCHANGED <<predictVars, codecVars, sharedVars>>
    /\ pc = "check_adapters"
    /\ IF TooManyAdapters
         THEN pc' = "done" /\ ret' = "ErrAdapters"
         ELSE pc' = "loop" /\ ret' = ret
    /\ UNCHANGED <<modelExists, runnerExists, adapters, try, cmds, elapsed, probe>>

\* a loop that runs once too often
LoopGuard_OffByOne == try <= MaxTries

\* the loop condition try < 3
LoopGuard == try < MaxTries

\* for try := 0; try < 3; try++ { port := ...; llm := &llama{...} ... }
\* and, after the loop, return nil, fmt.Errorf("max retry exceeded ...")
LoopHead ==
    /\ UNCHANGED <<predictVars, codecVars, sharedVars>>
    /\ pc = "loop"
    /\ IF LoopGuard
         THEN /\ \E port \in PortChoices : cmds' = Append(cmds, NewCmd(port))
              /\ probe' = "none"
              /\ pc' = "start"
              /\ ret' = ret
         ELSE /\ pc' = "done"
              /\ ret' = "ErrMaxRetry"
              /\ UNCHANGED <<cmds, probe>>
    /\ UNCHANGED <<modelExists, runnerExists, adapters, try, elapsed>>

\* if err := llm.Cmd.Start(); err != nil { log; continue }
CmdStart ==
    /\ UNCHANGED <<predictVars, codecVars, sharedVars>>
    /\ pc = "start"
    /\ \/ /\ cmds' = SetCur("state", "running")
          /\ pc' = "tick"
          /\ elapsed' = 0
          /\ try' = try
       \/ /\ cmds' = SetCur("state", "startfailed")
          /\ pc' = "loop"
          /\ try' = try + 1
          /\ elapsed' = elapsed
    /\ UNCHANGED <<modelExists, runnerExists, adapters, probe, ret>>

\* time.Now().After(expiresAt)
Expired(now) == now > PollWindowMs

\* a newLlama that goes to the next attempt without closing the runner
OnExpired_NoClose == "loop"

\* what waitForServer does when the window has expired:
\* return fmt.Errorf("llama.cpp server did not start within alloted time, retrying"),
\* on which newLlama calls llm.Close()
OnExpired == "close"

\* the ticker's next tick after time t (ms since the ticker was made)
NextTick(t) == ((t \div TickMs) + 1) * TickMs

\* start, expiresAt and ticker are locals of waitForServer: elapsed is 0
\* outside of it.
\* for range ticker.C { if time.Now().After(expiresAt) { return error } ... }
Tick ==
    /\ UNCHANGED <<predictVars, codecVars, sharedVars>>
    /\ pc = "tick"
    /\ LET now == NextTick(elapsed)
       IN  IF Expired(now)
             THEN pc' = OnExpired /\ elapsed' = 0
             ELSE pc' = "ping" /\ elapsed' = now
    /\ UNCHANGED <<modelExists, runnerExists, adapters, try, cmds, probe, ret>>

\* Ping: http.Head("http://127.0.0.1:<port>"): a transport error, or a
\* status.  The subprocess answers 200 once it listens; when it does not
\* listen the connection is refused or another process bound to the port
\* answers, with 200 or with another status.
PingStatuses == IF /\ Cur.state = "running" /\ Cur.listening
                     /\ PingTarget(Cur) = ListenPort(Cur)
                  THEN {StatusOK}
                  ELSE {0, StatusOK, StatusErrorFloor + 4}

\* Ping's result for a response status (0: no response, err != nil)
PingResult(status) ==
    IF status = 0 THEN "err"
    ELSE IF status # StatusOK THEN "badstatus"
    ELSE "ok"

\* a probe returns at once or takes as long as a whole window
PingDurations == {0, PollWindowMs}

\* if err := llm.Ping(context.Background()); err == nil { break }
\* then waitForServer returns nil and newLlama returns llm, nil
PingStep ==
    /\ UNCHANGED <<predictVars, codecVars, sharedVars>>
    /\ pc = "ping"
    /\ \E status \in PingStatuses, d \in PingDurations :
         /\ probe' = PingResult(status)
         /\ IF probe' = "ok"
              THEN pc' = "done" /\ ret' = "llm" /\ elapsed' = 0
              ELSE pc' = "tick" /\ ret' = ret /\ elapsed' = elapsed + d
    /\ UNCHANGED <<modelExists, runnerExists, adapters, try, cmds>>

\* a Close that waits without cancelling first
CloseCancel_NoCancel ==
    /\ UNCHANGED <<predictVars, codecVars, sharedVars>>
    /\ pc = "close"
    /\ pc' = "wait"
    /\ UNCHANGED <<modelExists, runnerExists, adapters, try, cmds, elapsed, probe, ret>>

\* resp, err := http.Head(...) never returns: http.DefaultClient has no
\* Timeout, Ping does not hand its ctx to the request (and waitForServer
\* passes context.Background()), and the expiry is only tested between
\* two probes.  The listener accepted the connection and sends no response.
PingHang ==
    /\ UNCHANGED <<predictVars, codecVars, sharedVars>>
    /\ pc = "ping"
    /\ pc' = "ping_hung"
    /\ UNCHANGED <<modelExists, runnerExists, adapters, try, cmds, elapsed, probe, ret>>

\* Close: llm.Cancel()
CloseCancel ==
    /\ UNCHANGED <<predictVars, codecVars, sharedVars>>
    /\ pc = "close"
    /\ cmds' = SetCur("cancelled", TRUE)
    /\ pc' = "wait"
    /\ UNCHANGED <<modelExists, runnerExists, adapters, try, elapsed, probe, ret>>

\* a Close that does not wait for the process
CmdWaitDone_NoWait == TRUE

\* llm.Cmd.Wait() returns once the process has exited
CmdWaitDone == Cur.state = "exited"

\* Close: if err := llm.Cmd.Wait(); err != nil { log }; then continue
\* Wait's error (Cur.exit is not zero) is logged; Close has no result
CloseWait ==
    /\ UNCHANGED <<predictVars, codecVars, sharedVars>>
    /\ pc = "wait"
    /\ CmdWaitDone
    /\ cmds' = SetCur("waited", TRUE)
    /\ pc' = "loop"
    /\ try' = try + 1
    /\ UNCHANGED <<modelExists, runnerExists, adapters, elapsed, probe, ret>>

(***************************************************************************)
(* The subprocess of the running attempt.                                  *)
(***************************************************************************)
\* the server has loaded the model and listens on its port
ProcListen ==
    /\ UNCHANGED <<predictVars, codecVars, sharedVars>>
    /\ pc \in {"tick", "ping"}
    /\ Cur.state = "running" /\ ~Cur.listening
    /\ cmds' = SetCur("listening", TRUE)
    /\ UNCHANGED <<modelExists, runnerExists, adapters, pc, try, elapsed, probe, ret>>

\* the exit of a process: killed by the cancelled context, or on its own
\* with any status
ExitCodes(cmd) == IF cmd.cancelled THEN {"nonzero"} ELSE {"zero", "nonzero"}

\* the process exits on its own (the port is taken, the model does not load)
\* or is killed through the cancelled context of exec.CommandContext
ProcExit ==
    /\ UNCHANGED <<predictVars, codecVars, sharedVars>>
    /\ pc \in {"tick", "ping", "wait"}
    /\ Cur.state = "running"
    /\ \E code \in ExitCodes(Cur) :
         cmds' = [cmds EXCEPT ![Len(cmds)].state = "exited",
                              ![Len(cmds)].listening = FALSE,
                              ![Len(cmds)].exit = code]
    /\ UNCHANGED <<modelExists, runnerExists, adapters, pc, try, elapsed, probe, ret>>

StartNext ==
    \/ StatModel \/ StatRunner \/ CheckAdapters
    \/ LoopHead \/ CmdStart \/ Tick \/ PingStep \/ PingHang
    \/ CloseCancel \/ CloseWait
    \/ ProcListen \/ ProcExit

\* newLlama is not running: its variables in the other specifications
StartIdle ==
    /\ modelExists = TRUE /\ runnerExists = TRUE /\ adapters = 0
    /\ pc = "idle" /\ try = 0 /\ cmds = <<>> /\ elapsed = 0
    /\ probe = "none" /\ ret = "none"

(***************************************************************************)
(* Texts, tokens and the runner's HTTP server.                             *)
(***************************************************************************)
\* a text is a sequence of characters
Chars == {" ", "a", "b"}

Texts(n) == UNION {[1..k -> Chars] : k \in 0..n}

\* the server's vocabulary: one token per character
CharCode == [c \in Chars |-> CASE c = " " -> 1 [] c = "a" -> 2 [] c = "b" -> 3]

CodeChar == [t \in 1..3 |-> CASE t = 1 -> " " [] t = 2 -> "a" [] t = 3 -> "b"]

\* POST /tokenize {content} -> {tokens}
ServerTokenize(text) == [i \in 1..Len(text) |-> CharCode[text[i]]]

\* POST /detokenize {tokens} -> {content}: the text of the tokens behind one
\* leading whitespace
ServerDetokenize(tokens) == <<" ">> \o [i \in 1..Len(tokens) |-> CodeChar[tokens[i]]]

\* POST /embedding {content} -> {embedding}
ServerEmbedding(text) == <<Len(text)>>

\* What http.DefaultClient.Do and io.ReadAll give for one request:
\*   kind "fail"      Do returns an error (cause: net | ctx)
\*   kind "readfail"  io.ReadAll(resp.Body) returns an error
\*   kind "http"      a response with a status and a body; valid: the body
\*                    is the JSON the endpoint documents, holding value
\*                    raw: the bytes of the body
Response(kind, cause, status, valid, value, raw) ==
    [kind |-> kind, cause |-> cause, status |-> status, valid |-> valid,
     value |-> value, raw |-> raw]

\* the responses a request can get when the server would answer `value`;
\* once ctx is cancelled the transport fails with the context's error, or
\* the response wins the race
Responses(value, ctxDone) ==
    LET cause == IF ctxDone THEN "ctx" ELSE "net"
    IN  { Response("fail", cause, 0, FALSE, <<>>, ""),
          Response("readfail", cause, StatusOK, FALSE, <<>>, ""),
          Response("http", "none", StatusErrorFloor + 100, FALSE, <<>>, "internal error"),
          Response("http", "none", StatusErrorFloor - 100, FALSE, <<>>, "moved"),
          Response("http", "none", StatusErrorFloor - 100, TRUE, value, "json"),
          Response("http", "none", StatusOK, FALSE, <<>>, "not json"),
          Response("http", "none", StatusOK, TRUE, value, "json") }

\* the response of a request made with a context that is already cancelled
CancelledResponse == Response("fail", "ctx", 0, FALSE, <<>>, "")

(***************************************************************************)
(* Errors: the message, the error underneath, and whether errors.Is finds  *)
(* the error underneath (the value itself, or wrapped with %w, not %v).    *)
(***************************************************************************)
Err(msg, cause, is) == [msg |-> msg, cause |-> cause, is |-> is]

Nil == Err("nil", "none", FALSE)

\* ctx.Err()
CtxErr == Err("context canceled", "ctx", TRUE)

\* resp.StatusCode >= 400
IsErrorStatus(status) == status >= StatusErrorFloor

\* strings.HasPrefix(s, prefix)
HasPrefix(s, prefix) ==
    /\ Len(s) >= Len(prefix)
    /\ SubSeq(s, 1, Len(prefix)) = prefix

\* strings.CutPrefix(s, prefix): s without the leading prefix, or s
CutPrefix(s, prefix) ==
    IF HasPrefix(s, prefix) THEN SubSeq(s, Len(prefix) + 1, Len(s)) ELSE s

\* the prefix Decode cuts: strings.CutPrefix(decoded.Content, "")
DecodeCutset == <<>>

\* Encode, from the response on: (tokens, err)
EncodeReturn(resp) ==
    IF resp.kind = "fail"
      THEN [tokens |-> <<>>, err |-> Err("do encode request", resp.cause, TRUE)]
    ELSE IF resp.kind = "readfail"
      THEN [tokens |-> <<>>, err |-> Err("read encode request", resp.cause, TRUE)]
    ELSE IF IsErrorStatus(resp.status)
      THEN [tokens |-> <<>>, err |-> Err(resp.raw, "server", FALSE)]
    ELSE IF ~resp.valid
      THEN [tokens |-> <<>>, err |-> Err("unmarshal encode response", "json", TRUE)]
    ELSE [tokens |-> resp.value, err |-> Nil]

\* Embedding, from the response on: (embedding, err)
EmbeddingReturn(resp) ==
    IF resp.kind = "fail"
      THEN [embedding |-> <<>>, err |-> Err("POST embedding", resp.cause, TRUE)]
    ELSE IF resp.kind = "readfail"
      THEN [embedding |-> <<>>, err |-> Err("error reading embed response", resp.cause, TRUE)]
    ELSE IF IsErrorStatus(resp.status)
      THEN [embedding |-> <<>>, err |-> Err(resp.raw, "server", FALSE)]
    ELSE IF ~resp.valid
      THEN [embedding |-> <<>>, err |-> Err("unmarshal tokenize response", "json", TRUE)]
    ELSE [embedding |-> resp.value, err |-> Nil]

\* a Decode without the short-circuit for an empty token sequence
NoTokens_NeverShort(tokens) == FALSE

\* len(tokens) == 0
NoTokens(tokens) == Len(tokens) = 0

\* Decode, from the response on: (content, err)
DecodeReturn(resp) ==
    IF resp.kind = "fail"
      THEN [content |-> <<>>, err |-> Err("do decode request", resp.cause, TRUE)]
    ELSE IF resp.kind = "readfail"
      THEN [content |-> <<>>, err |-> Err("read decode request", resp.cause, TRUE)]
    ELSE IF IsErrorStatus(resp.status)
      THEN [content |-> <<>>, err |-> Err(resp.raw, "server", FALSE)]
    ELSE IF ~resp.valid
      THEN [content |-> <<>>, err |-> Err("unmarshal encode response", "json", TRUE)]
    ELSE [content |-> CutPrefix(resp.value, DecodeCutset), err |-> Nil]

(***************************************************************************)
(* Predict                                                                 *)
(***************************************************************************)
\* type Prediction: Content, Stop and the Timings counts
Prediction(content, stop, promptN, predictedN) ==
    [Content |-> content, Stop |-> stop, PromptN |-> promptN,
     PredictedN |-> predictedN]

\* One line of the response body: how it starts ("" for the empty line,
\* "data: " for an event, anything else otherwise), whether what follows
\* "data: " is the JSON of a Prediction, and that Prediction.
Line(head, valid, p) == [head |-> head, valid |-> valid, p |-> p]

NoPrediction == Prediction(<<>>, FALSE, 0, 0)

BlankLine == Line("", FALSE, NoPrediction)

CommentLine == Line(": ping", FALSE, NoPrediction)

BadDataLine == Line("data: ", FALSE, NoPrediction)

FragmentLine(content) == Line("data: ", TRUE, Prediction(content, FALSE, 0, 0))

StopLine(content) == Line("data: ", TRUE, Prediction(content, TRUE, 3, 2))

\* the lines the server sends
LineSet ==
    { BlankLine, CommentLine, BadDataLine,
      FragmentLine(<<"a">>), FragmentLine(<<"b">>),
      StopLine(<<>>), StopLine(<<"b">>) }

\* line == ""
IsBlank(line) == line.head = ""

\* a test that takes every line that is not empty for an event
HasDataPrefix_Any(line) == line.head # ""

\* strings.HasPrefix(line, "data: ")
HasDataPrefix(line) == line.head = "data: "

IsStop(line) == HasDataPrefix(line) /\ line.valid /\ line.p.Stop

\* a record with the stop flag has been returned by the scanner
StopSeen == \E i \in 1..Len(body) : IsStop(body[i])

\* a call that runs on a context of its own (context.Background(), as Ping
\* does) and never sees the caller's cancellation
CtxDone_Background == FALSE

\* <-ctx.Done() is ready; a request made with ctx fails
CtxDone == cancelled

\* api.GenerateResponse{Response: p.Content}
PartialResponse(p) ==
    [Done |-> FALSE, Response |-> p.Content, Context |-> <<>>,
     PromptEvalCount |-> 0, EvalCount |-> 0]

\* a final response with the two counts taken from the wrong fields
FinalResponse_SwappedCounts(p, embd) ==
    [Done |-> TRUE, Response |-> <<>>, Context |-> embd,
     PromptEvalCount |-> p.PredictedN, EvalCount |-> p.PromptN]

\* api.GenerateResponse{Done: true, Context: embd, PromptEvalCount: p.PromptN,
\*                      EvalCount: p.PredictedN, ...}
FinalResponse(p, embd) ==
    [Done |-> TRUE, Response |-> <<>>, Context |-> embd,
     PromptEvalCount |-> p.PromptN, EvalCount |-> p.PredictedN]

Request(endpoint, payload) == [endpoint |-> endpoint, payload |-> payload]

PrevContexts == UNION {[1..k -> {CharCode["a"], CharCode["b"]}] : k \in 0..MaxPrevLen}

Prompts == {<<>>, <<"a">>}

PredictInit ==
    /\ cancelled = FALSE
    /\ cancelAt = "never"
    /\ prevContext \in PrevContexts
    /\ prompt \in Prompts
    /\ ppc = "decode"
    /\ reqs = <<>>
    /\ resps = <<>>
    /\ nextContext = <<>>
    /\ body = <<>>
    /\ bodyEnd = "open"
    /\ fnCalls = <<>>
    /\ pret = Nil

\* Predict is not running: its variables in the other specifications
PredictIdle ==
    /\ cancelled = FALSE /\ cancelAt = "never"
    /\ prevContext = <<>> /\ prompt = <<>>
    /\ ppc = "idle" /\ reqs = <<>> /\ resps = <<>> /\ nextContext = <<>>
    /\ body = <<>> /\ bodyEnd = "open" /\ fnCalls = <<>> /\ pret = Nil

\* a Predict that starts over when a step fails
Return_Retry(err) ==
    IF err = Nil THEN ppc' = "done" /\ pret' = err
    ELSE ppc' = "decode" /\ pret' = pret

\* return err
Return(err) == ppc' = "done" /\ pret' = err

\* prevConvo, err := llm.Decode(ctx, prevContext): up to the request.
\* if len(tokens) == 0 { return "", nil }
DecodeCall ==
    /\ UNCHANGED <<startVars, codecVars, sharedVars>>
    /\ ppc = "decode"
    /\ IF NoTokens(prevContext)
         THEN /\ nextContext' = <<>> \o prompt
              /\ ppc' = "post"
              /\ UNCHANGED <<reqs, pret>>
         ELSE IF CtxDone
           THEN /\ Return(DecodeReturn(CancelledResponse).err)
                /\ UNCHANGED <<reqs, nextContext>>
           ELSE /\ reqs' = Append(reqs, Request("/detokenize", prevContext))
                /\ ppc' = "decode_recv"
                /\ UNCHANGED <<nextContext, pret>>
    /\ UNCHANGED <<cancelled, cancelAt, prevContext, prompt, resps, body, bodyEnd,
                   fnCalls>>

\* Decode from the response on; if err != nil { return err };
\* nextContext.WriteString(prevConvo); nextContext.WriteString(prompt)
DecodeRecv ==
    /\ UNCHANGED <<startVars, codecVars, sharedVars>>
    /\ ppc = "decode_recv"
    /\ \E resp \in Responses(ServerDetokenize(prevContext), CtxDone) :
         LET r == DecodeReturn(resp)
         IN  /\ resps' = Append(resps, resp)
             /\ IF r.err # Nil
                  THEN Return(r.err) /\ UNCHANGED nextContext
                  ELSE /\ nextContext' = r.content \o prompt
                       /\ ppc' = "post"
                       /\ UNCHANGED pret
    /\ UNCHANGED <<cancelled, cancelAt, prevContext, prompt, reqs, body, bodyEnd, fnCalls>>

\* resp, err := http.DefaultClient.Do(req) for POST /completion with
\* Prompt: nextContext.String(): up to the request
PostSend ==
    /\ UNCHANGED <<startVars, codecVars, sharedVars>>
    /\ ppc = "post"
    /\ IF CtxDone
         THEN Return(Err("POST predict", "ctx", FALSE)) /\ UNCHANGED reqs
         ELSE /\ reqs' = Append(reqs, Request("/completion", nextContext))
              /\ ppc' = "post_recv"
              /\ UNCHANGED pret
    /\ UNCHANGED <<cancelled, cancelAt, prevContext, prompt, resps, nextContext,
                   body, bodyEnd, fnCalls>>

\* the responses POST /completion can get: the transport fails, or the
\* response has a status; the body of a status >= 400 is read at once (and
\* the read can fail), any other body is the stream the scanner reads
CompletionResponses(ctxDone) ==
    LET cause == IF ctxDone THEN "ctx" ELSE "net"
    IN  { Response("fail", cause, 0, FALSE, <<>>, ""),
          Response("readfail", cause, StatusErrorFloor + 100, FALSE, <<>>, ""),
          Response("http", "none", StatusErrorFloor + 100, FALSE, <<>>, "internal error"),
          Response("http", "none", StatusErrorFloor - 100, TRUE, <<>>, "stream"),
          Response("http", "none", StatusOK, TRUE, <<>>, "stream") }

\* if err != nil { return fmt.Errorf("POST predict: %v", err) }
\* if resp.StatusCode >= 400 { bodyBytes, err := io.ReadAll(resp.Body)
\*   if err != nil { return fmt.Errorf("failed reading llm error response: %w", err) }
\*   return fmt.Errorf("%s", bodyBytes) }
\* Nil: the call goes on to scan the body
PostReturn(resp) ==
    IF resp.kind = "fail"
      THEN Err("POST predict", resp.cause, FALSE)
    ELSE IF IsErrorStatus(resp.status)
      THEN IF resp.kind = "readfail"
             THEN Err("failed reading llm error response", resp.cause, TRUE)
             ELSE Err(resp.raw, "server", FALSE)
    ELSE Nil

PostRecv ==
    /\ UNCHANGED <<startVars, codecVars, sharedVars>>
    /\ ppc = "post_recv"
    /\ \E resp \in CompletionResponses(CtxDone) :
         /\ resps' = Append(resps, resp)
         /\ IF PostReturn(resp) # Nil
              THEN Return(PostReturn(resp))
              ELSE ppc' = "scan" /\ UNCHANGED pret
    /\ UNCHANGED <<cancelled, cancelAt, prevContext, prompt, reqs, nextContext,
                   body, bodyEnd, fnCalls>>

\* for scanner.Scan() { ... }; if err := scanner.Err(); err != nil {
\*   return fmt.Errorf("error reading llm response: %v", err) }; return nil
\* Scan returns the next line, or false at the end of the body (Err() nil),
\* or false on a read error: the connection's, or the cancelled context's.
Scan ==
    /\ UNCHANGED <<startVars, codecVars, sharedVars>>
    /\ ppc = "scan"
    /\ \/ /\ Len(body) < MaxLines
          /\ \E line \in LineSet : body' = Append(body, line)
          /\ ppc' = "line"
          /\ UNCHANGED <<bodyEnd, pret>>
       \/ /\ bodyEnd' = "eof"
          /\ Return(Nil)
          /\ UNCHANGED body
       \/ /\ bodyEnd' = "err"
          /\ Return(Err("error reading llm response",
                        IF CtxDone THEN "ctx" ELSE "net", FALSE))
          /\ UNCHANGED body
    /\ UNCHANGED <<cancelled, cancelAt, prevContext, prompt, reqs, resps,
                   nextContext, fnCalls>>

\* an accumulator that leaves out the text of the stop record
Accumulate_SkipStop(acc, p) == IF p.Stop THEN acc ELSE acc \o p.Content

\* nextContext.WriteString(p.Content)
Accumulate(acc, p) == acc \o p.Content

\* the body of the loop: select { case <-ctx.Done(): return ctx.Err()
\* default: ... } up to the call of llm.Encode
ProcessLine ==
    /\ UNCHANGED <<startVars, codecVars, sharedVars>>
    /\ ppc = "line"
    /\ LET line == body[Len(body)]
       IN  IF CtxDone
             THEN Return(CtxErr) /\ UNCHANGED <<fnCalls, nextContext>>
           ELSE IF IsBlank(line) \/ ~HasDataPrefix(line)
             THEN ppc' = "scan" /\ UNCHANGED <<fnCalls, nextContext, pret>>
           ELSE IF ~line.valid
             THEN /\ Return(Err("error unmarshaling llm prediction response",
                                "json", FALSE))
                  /\ UNCHANGED <<fnCalls, nextContext>>
           ELSE /\ fnCalls' = Append(fnCalls, PartialResponse(line.p))
                /\ nextContext' = Accumulate(nextContext, line.p)
                /\ ppc' = IF line.p.Stop THEN "encode" ELSE "scan"
                /\ UNCHANGED pret
    /\ UNCHANGED <<cancelled, cancelAt, prevContext, prompt, reqs, resps, body,
                   bodyEnd>>

\* embd, err := llm.Encode(ctx, nextContext.String()): up to the request
EncodeSend ==
    /\ UNCHANGED <<startVars, codecVars, sharedVars>>
    /\ ppc = "encode"
    /\ IF CtxDone
         THEN /\ Return(Err("encoding context",
                            EncodeReturn(CancelledResponse).err.cause, FALSE))
              /\ UNCHANGED reqs
         ELSE /\ reqs' = Append(reqs, Request("/tokenize", nextContext))
              /\ ppc' = "encode_recv"
              /\ UNCHANGED pret
    /\ UNCHANGED <<cancelled, cancelAt, prevContext, prompt, resps, nextContext,
                   body, bodyEnd, fnCalls>>

\* if err != nil { return fmt.Errorf("encoding context: %v", err) }
\* fn(api.GenerateResponse{Done: true, ...}); return nil
EncodeRecv ==
    /\ UNCHANGED <<startVars, codecVars, sharedVars>>
    /\ ppc = "encode_recv"
    /\ \E resp \in Responses(ServerTokenize(nextContext), CtxDone) :
         LET r == EncodeReturn(resp)
         IN  /\ resps' = Append(resps, resp)
             /\ IF r.err # Nil
                  THEN /\ Return(Err("encoding context", r.err.cause, FALSE))
                       /\ UNCHANGED fnCalls
                  ELSE /\ fnCalls' = Append(fnCalls,
                                            FinalResponse(body[Len(body)].p, r.tokens))
                       /\ Return(Nil)
    /\ UNCHANGED <<cancelled, cancelAt, prevContext, prompt, reqs, nextContext,
                   body, bodyEnd>>

\* the caller cancels ctx while the call runs
Cancel ==
    /\ UNCHANGED <<startVars, codecVars, sharedVars>>
    /\ ppc \notin {"idle", "done"}
    /\ ~cancelled
    /\ cancelled' = TRUE
    /\ cancelAt' = IF StopSeen THEN "after_stop"
                   ELSE IF ppc \in {"scan", "line"} THEN "stream"
                   ELSE "before_stream"
    /\ UNCHANGED <<prevContext, prompt, ppc, reqs, resps, nextContext, body,
                   bodyEnd, fnCalls, pret>>

PredictNext ==
    \/ DecodeCall \/ DecodeRecv \/ PostSend \/ PostRecv
    \/ Scan \/ ProcessLine \/ EncodeSend \/ EncodeRecv
    \/ Cancel

(***************************************************************************)
(* Encode of a text, then Decode of the tokens it returned; or Embedding   *)
(* of the text.                                                            *)
(***************************************************************************)
\* no call has returned yet
NoResponse == Response("none", "none", 0, FALSE, <<>>, "")

CodecInit ==
    /\ cText \in Texts(MaxTextLen)
    /\ cpc \in {"encode", "embed"}
    /\ cTokens = <<>>
    /\ cDecoded = <<>>
    /\ cEmbedding = <<>>
    /\ cLast = "none"
    /\ cResp = NoResponse
    /\ cErr = Nil

\* Encode and Decode are not running: their variables in the other
\* specifications
CodecIdle ==
    /\ cText = <<>> /\ cpc = "idle" /\ cTokens = <<>> /\ cDecoded = <<>>
    /\ cEmbedding = <<>> /\ cLast = "none" /\ cResp = NoResponse /\ cErr = Nil

\* tokens, err := llm.Encode(ctx, text)
CodecEncode ==
    /\ UNCHANGED <<startVars, predictVars, sharedVars>>
    /\ cpc = "encode"
    /\ \E resp \in Responses(ServerTokenize(cText), FALSE) :
         LET r == EncodeReturn(resp)
         IN  /\ cTokens' = r.tokens
             /\ cErr' = r.err
             /\ cResp' = resp
             /\ cpc' = IF r.err # Nil THEN "done" ELSE "decode"
    /\ cLast' = "encode"
    /\ UNCHANGED <<cText, cDecoded, cEmbedding>>

\* what Decode returns for tokens: (content, err), and the response it got
\* if len(tokens) == 0 { return "", nil }, else the request and its response
DecodeOutcomes(tokens) ==
    IF NoTokens(tokens)
      THEN {[content |-> <<>>, err |-> Nil, resp |-> NoResponse]}
      ELSE {[content |-> DecodeReturn(resp).content, err |-> DecodeReturn(resp).err,
             resp |-> resp] : resp \in Responses(ServerDetokenize(tokens), FALSE)}

\* text, err := llm.Decode(ctx, tokens)
CodecDecode ==
    /\ UNCHANGED <<startVars, predictVars, sharedVars>>
    /\ cpc = "decode"
    /\ \E r \in DecodeOutcomes(cTokens) :
         /\ cDecoded' = r.content
         /\ cErr' = r.err
         /\ cResp' = r.resp
    /\ cLast' = "decode"
    /\ cpc' = "done"
    /\ UNCHANGED <<cText, cTokens, cEmbedding>>

\* embedding, err := llm.Embedding(ctx, input)
CodecEmbed ==
    /\ UNCHANGED <<startVars, predictVars, sharedVars>>
    /\ cpc = "embed"
    /\ \E resp \in Responses(ServerEmbedding(cText), FALSE) :
         LET r == EmbeddingReturn(resp)
         IN  /\ cEmbedding' = r.embedding
             /\ cErr' = r.err
             /\ cResp' = resp
    /\ cLast' = "embed"
    /\ cpc' = "done"
    /\ UNCHANGED <<cText, cTokens, cDecoded>>

CodecNext == CodecEncode \/ CodecDecode \/ CodecEmbed

(***************************************************************************)
(* Two Predict calls on one runner, one after the other or interleaved,    *)
(* with SetOptions calls in between.  Neither ctx is cancelled.            *)
(***************************************************************************)
Calls == {1, 2}

\* api.Options: two of its fields
Options(numPredict, temperature) ==
    [NumPredict |-> numPredict, Temperature |-> temperature]

\* the values a caller passes to SetOptions
OptionValues == {Options(0, 0), Options(1, 1)}

\* the strings.Builder a call writes its text to: `var nextContext
\* strings.Builder` is a variable of the call's own frame
AccSlot_Shared(c) == 1

AccSlot(c) == c

\* nextContext.String() of call c
AccText(c) == nextContexts[AccSlot(c)]

\* nextContext.WriteString(text) of call c
AccWrite(c, text) ==
    nextContexts' = [nextContexts EXCEPT ![AccSlot(c)] = @ \o text]

\* the arguments of the two calls: with or without a prior context, and a
\* prompt that tells the calls apart
CallPrevs == {<<>>, <<CharCode["a"]>>}

CallPrompt(c) == IF c = 1 THEN <<"a">> ELSE <<"b">>

\* the lines the server sends to these calls
CallLines ==
    {CommentLine, BadDataLine, FragmentLine(<<"a">>), StopLine(<<"b">>)}

NewCall(prev, text) ==
    [pc |-> "decode", prevContext |-> prev, prompt |-> text, body |-> <<>>,
     sent |-> <<>>, opts |-> <<>>, final |-> <<>>, ret |-> "none"]

SharedInit ==
    /\ \E prevs \in [Calls -> CallPrevs] :
         calls = [c \in Calls |-> NewCall(prevs[c], CallPrompt(c))]
    /\ nextContexts = [c \in Calls |-> <<>>]
    /\ llmOptions = [cur |-> Options(0, 0), next |-> Options(0, 0),
                     busy |-> FALSE, writes |-> 0]

\* no such calls are running: their variables in the other specifications
SharedIdle ==
    /\ calls = [c \in Calls |-> [NewCall(<<>>, <<>>) EXCEPT !.pc = "idle"]]
    /\ nextContexts = [c \in Calls |-> <<>>]
    /\ llmOptions = [cur |-> Options(0, 0), next |-> Options(0, 0),
                     busy |-> FALSE, writes |-> 0]

\* call c returns err (nil or an error)
CallReturn(c, err) ==
    calls' = [calls EXCEPT ![c].pc = "done",
                           ![c].ret = IF err = Nil THEN "nil" ELSE "err"]

\* prevConvo, err := llm.Decode(ctx, prevContext); if err != nil { return err }
\* var nextContext strings.Builder
\* nextContext.WriteString(prevConvo); nextContext.WriteString(prompt)
CallDecode(c) ==
    /\ UNCHANGED <<startVars, predictVars, codecVars>>
    /\ calls[c].pc = "decode"
    /\ \E r \in DecodeOutcomes(calls[c].prevContext) :
         IF r.err # Nil
           THEN CallReturn(c, r.err) /\ UNCHANGED nextContexts
           ELSE /\ AccWrite(c, r.content \o calls[c].prompt)
                /\ calls' = [calls EXCEPT ![c].pc = "post"]
    /\ UNCHANGED llmOptions

\* The fields of llm.Options a reader sees.  SetOptions assigns the struct
\* with no synchronisation: a read that overlaps the write sees, field by
\* field, the old or the new value.
ReadOptions ==
    IF llmOptions.busy
      THEN {Options(n, t) :
              n \in {llmOptions.cur.NumPredict, llmOptions.next.NumPredict},
              t \in {llmOptions.cur.Temperature, llmOptions.next.Temperature}}
      ELSE {llmOptions.cur}

\* predReq := PredictRequest{Prompt: nextContext.String(), NPredict:
\* llm.NumPredict, Temperature: llm.Temperature, ...}; the POST and its
\* response, up to the scanner
CallPost(c) ==
    /\ UNCHANGED <<startVars, predictVars, codecVars>>
    /\ calls[c].pc = "post"
    /\ \E o \in ReadOptions, resp \in CompletionResponses(FALSE) :
         calls' = [calls EXCEPT
                     ![c].sent = <<AccText(c)>>,
                     ![c].opts = <<o>>,
                     ![c].pc = IF PostReturn(resp) # Nil THEN "done" ELSE "scan",
                     ![c].ret = IF PostReturn(resp) # Nil THEN "err" ELSE @]
    /\ UNCHANGED <<nextContexts, llmOptions>>

\* one turn of `for scanner.Scan() { ... }` with its body, or the end of
\* the loop: if err := scanner.Err(); err != nil { return ... }; return nil
CallScan(c) ==
    /\ UNCHANGED <<startVars, predictVars, codecVars>>
    /\ calls[c].pc = "scan"
    /\ \/ /\ Len(calls[c].body) < MaxCallLines
          /\ \E line \in CallLines :
               IF IsBlank(line) \/ ~HasDataPrefix(line)
                 THEN /\ calls' = [calls EXCEPT ![c].body = Append(@, line)]
                      /\ UNCHANGED nextContexts
               ELSE IF ~line.valid
                 THEN /\ calls' = [calls EXCEPT ![c].body = Append(@, line),
                                                ![c].pc = "done",
                                                ![c].ret = "err"]
                      /\ UNCHANGED nextContexts
               ELSE /\ AccWrite(c, line.p.Content)
                    /\ calls' = [calls EXCEPT
                                   ![c].body = Append(@, line),
                                   ![c].pc = IF line.p.Stop THEN "encode" ELSE "scan"]
       \/ \E err \in {Nil, Err("error reading llm response", "net", FALSE)} :
            CallReturn(c, err) /\ UNCHANGED nextContexts
    /\ UNCHANGED llmOptions

\* embd, err := llm.Encode(ctx, nextContext.String()); the final callback
\* fn(api.GenerateResponse{Done: true, Context: embd, ...}); return nil
CallEncode(c) ==
    /\ UNCHANGED <<startVars, predictVars, codecVars>>
    /\ calls[c].pc = "encode"
    /\ \E resp \in Responses(ServerTokenize(AccText(c)), FALSE) :
         LET r == EncodeReturn(resp)
         IN  IF r.err # Nil
               THEN CallReturn(c, r.err)
               ELSE calls' = [calls EXCEPT ![c].final = <<r.tokens>>,
                                           ![c].pc = "done",
                                           ![c].ret = "nil"]
    /\ UNCHANGED <<nextContexts, llmOptions>>

\* SetOptions: llm.Options = opts, from the first field written ...
SetOptionsBegin ==
    /\ UNCHANGED <<startVars, predictVars, codecVars>>
    /\ ~llmOptions.busy
    /\ llmOptions.writes < MaxSetOptions
    /\ \E o \in OptionValues \ {llmOptions.cur} :
         llmOptions' = [llmOptions EXCEPT !.next = o, !.busy = TRUE,
                                          !.writes = @ + 1]
    /\ UNCHANGED <<calls, nextContexts>>

\* ... to the last
SetOptionsEnd ==
    /\ UNCHANGED <<startVars, predictVars, codecVars>>
    /\ llmOptions.busy
    /\ llmOptions' = [llmOptions EXCEPT !.cur = llmOptions.next, !.busy = FALSE]
    /\ UNCHANGED <<calls, nextContexts>>

SharedNext ==
    \/ \E c \in Calls : CallDecode(c)
    \/ \E c \in Calls : CallPost(c)
    \/ \E c \in Calls : CallScan(c)
    \/ \E c \in Calls : CallEncode(c)
    \/ SetOptionsBegin
    \/ SetOptionsEnd

(***************************************************************************)
(* Properties of Predict (SpecPredict).                                    *)
(***************************************************************************)
\* the positions of the done=true callbacks among the callbacks made
DoneCalls == {i \in 1..Len(fnCalls) : fnCalls[i].Done}

IsDataRecord(line) == HasDataPrefix(line) /\ line.valid

IsFragment(line) == IsDataRecord(line) /\ ~line.p.Stop

\* the data records the scanner has returned, in stream order
DataRecords == SelectSeq(body, IsDataRecord)

\* those of them whose stop flag is unset
FragmentRecords == SelectSeq(body, IsFragment)

\* a callback carrying just a text
PartialOf(line) ==
    [Done |-> FALSE, Response |-> line.p.Content, Context |-> <<>>,
     PromptEvalCount |-> 0, EvalCount |-> 0]

\* the final callback for a stop record: its two counts and the tokens the
\* server returned for the call's /tokenize request
FinalOf(line) ==
    [Done |-> TRUE, Response |-> <<>>,
     Context |-> ServerTokenize(reqs[Len(reqs)].payload),
     PromptEvalCount |-> line.p.PromptN, EvalCount |-> line.p.PredictedN]

\* Predict returned nil after a stop record
StreamCompleted == ppc = "done" /\ pret = Nil /\ StopSeen

\* C3: a Predict call that returns nil has made exactly one done=true
\* callback, as its last callback; no call makes two, or any callback after
\* it.
C3_ExactlyOneFinalCallback ==
    /\ Cardinality(DoneCalls) <= 1
    /\ \A i \in DoneCalls : i = Len(fnCalls)
    /\ (ppc = "done" /\ pret = Nil) => Cardinality(DoneCalls) = 1

\* C4: when the response body ends before a record with the stop flag was
\* seen, Predict returns an error, not nil.
C4_EofBeforeStopIsError ==
    (ppc = "done" /\ bodyEnd = "eof" /\ ~StopSeen) => pret # Nil

\* C5: when ctx is cancelled while the stream is read, before its stop record
\* arrives, and cancellation (not the end of the body) ends the call, Predict
\* returns the context's error, which errors.Is recognises: from the per-line
\* check and from the failed read of the body alike.
C5_CancellationErrorReturned ==
    (ppc = "done" /\ cancelAt = "stream" /\ bodyEnd # "eof") =>
        (pret.cause = "ctx" /\ pret.is)

\* C6: when ctx is cancelled before the stream's stop record arrives, the
\* call makes no done=true callback, however the cancellation interleaves
\* with the reading of lines and with the /tokenize request.
C6_NoFinalCallbackAfterCancel ==
    cancelAt \in {"before_stream", "stream"} => DoneCalls = {}

\* C6 witness: ctx was cancelled while the stream was read, the stop record
\* arrived after that, and the call ended in the per-line check.
C6_Witness ==
    /\ ppc = "done" /\ cancelAt = "stream"
    /\ Len(body) >= 2 /\ IsStop(body[Len(body)])
    /\ fnCalls # <<>>
    /\ pret = CtxErr

\* the endpoints of the requests issued so far, in order
Endpoints == [i \in 1..Len(reqs) |-> reqs[i].endpoint]

\* C11: Decode of an empty token sequence returns "" and nil without a
\* request: a Predict call with an empty prior context issues no
\* /detokenize request, goes on with the prompt alone, and its first
\* request is the one to /completion.
C11_EmptyContextSkipsDetokenize ==
    Len(prevContext) = 0 =>
        /\ \A i \in 1..Len(reqs) : reqs[i].endpoint # "/detokenize"
        /\ ppc # "decode_recv"
        /\ ppc = "post" => (nextContext = prompt /\ pret = Nil)
        /\ reqs # <<>> =>
             (reqs[1].endpoint = "/completion" /\ reqs[1].payload = prompt)

\* C11 witness: a call with no prior context has run to its end, with the
\* /completion request first and the /tokenize request after it.
C11_Witness ==
    /\ Len(prevContext) = 0
    /\ ppc = "done" /\ pret = Nil /\ StopSeen
    /\ Endpoints = <<"/completion", "/tokenize">>

\* C7 as stated: for n fragment records followed by one stop record the
\* caller sees exactly n partial callbacks, one per fragment record, then one
\* final callback.
C7_OnePartialPerFragment ==
    StreamCompleted =>
        fnCalls = [i \in 1..Len(FragmentRecords) |-> PartialOf(FragmentRecords[i])]
                  \o <<FinalOf(body[Len(body)])>>

\* C7 amended: for n fragment records followed by one stop record, a call
\* that returns nil has made n + 1 partial callbacks, one per data record in
\* stream order, the stop record included, each carrying just that record's
\* text, then exactly one final callback carrying the stop record's prompt
\* and generated token counts and the tokens returned by /tokenize.
C7_OnePartialPerDataRecord ==
    StreamCompleted =>
        /\ IsStop(body[Len(body)])
        /\ Len(DataRecords) = Len(FragmentRecords) + 1
        /\ fnCalls = [i \in 1..Len(DataRecords) |-> PartialOf(DataRecords[i])]
                     \o <<FinalOf(body[Len(body)])>>

\* C7 witness: fragments "a" and "b", then the stop record with 3 prompt
\* tokens and 2 generated tokens: three partial callbacks and the final one.
C7_Witness ==
    /\ StreamCompleted
    /\ body = <<FragmentLine(<<"a">>), FragmentLine(<<"b">>), StopLine(<<>>)>>
    /\ Len(fnCalls) = 4
    /\ fnCalls[4].Done /\ fnCalls[4].PromptEvalCount = 3 /\ fnCalls[4].EvalCount = 2

\* C14 as stated: a health probe of the runner precedes the decode request
\* and the completion request of a Predict call.
C14_ProbeBeforeRequests ==
    \A i \in 1..Len(reqs) :
        reqs[i].endpoint \in {"/detokenize", "/completion"} =>
            \E j \in 1..(i - 1) : reqs[j].endpoint = "HEAD /"

\* the text of a sequence of data records, in order
RECURSIVE ContentOf(_)
ContentOf(records) ==
    IF records = <<>> THEN <<>>
    ELSE Head(records).p.Content \o ContentOf(Tail(records))

\* what Decode returned for the prior context
DecodedPrev ==
    IF Len(prevContext) = 0 THEN <<>> ELSE DecodeReturn(resps[1]).content

\* the positions of the /tokenize requests
EncodeReqs == {i \in 1..Len(reqs) : reqs[i].endpoint = "/tokenize"}

\* C15: when a stop record is observed, the text sent to encode is
\* decode(prior context), then the prompt, then the content of every data
\* record of the call in stream order, the stop record's included; there is
\* one such request, and the final callback carries the tokens it returned.
C15_EncodedTextAndContext ==
    /\ Cardinality(EncodeReqs) <= 1
    /\ \A i \in EncodeReqs :
         /\ StopSeen
         /\ reqs[i].payload = DecodedPrev \o prompt \o ContentOf(DataRecords)
    /\ \A k \in DoneCalls :
         /\ EncodeReqs = {Len(reqs)} /\ Len(resps) = Len(reqs)
         /\ resps[Len(resps)].valid
         /\ fnCalls[k].Context = resps[Len(resps)].value

\* C15 witness: a prior context, a prompt, two fragments and a stop record
\* with text of its own; the final callback carries the tokens of all of it.
C15_Witness ==
    /\ ppc = "done" /\ pret = Nil
    /\ Len(prevContext) > 0 /\ Len(prompt) > 0
    /\ Len(DataRecords) = 3 /\ body[Len(body)] = StopLine(<<"b">>)
    /\ DoneCalls # {}
    /\ \A k \in DoneCalls :
         Len(fnCalls[k].Context) = Len(DecodedPrev) + Len(prompt) + 3

\* the error the call made for reqs[i] returned on resps[i] (Nil: none)
StepError(i) ==
    CASE reqs[i].endpoint = "/detokenize" -> DecodeReturn(resps[i]).err
      [] reqs[i].endpoint = "/completion" -> PostReturn(resps[i])
      [] reqs[i].endpoint = "/tokenize" -> EncodeReturn(resps[i]).err
      [] OTHER -> Nil

\* the orders of requests of one call: at most one of each, in this order
RequestOrders ==
    { <<>>, <<"/detokenize">>, <<"/detokenize", "/completion">>,
      <<"/detokenize", "/completion", "/tokenize">>,
      <<"/completion">>, <<"/completion", "/tokenize">> }

\* a line that starts like an event and does not hold a Prediction
IsMalformed(line) == line.head = "data: " /\ ~line.valid

\* C19: Predict never retries: it issues at most one /detokenize, then at
\* most one /completion, then at most one /tokenize request, in that
\* order; the first failure (transport error, error status, malformed data
\* record, failed re-encoding) ends the call with an error and no further
\* request is sent.
C19_NoRetry ==
    /\ Endpoints \in RequestOrders
    /\ Len(resps) <= Len(reqs)
    /\ \A i \in 1..Len(resps) :
         StepError(i) # Nil =>
             (i = Len(reqs) /\ ppc = "done" /\ pret # Nil)
    /\ \A k \in 1..Len(body) :
         IsMalformed(body[k]) =>
             /\ k = Len(body)
             /\ ppc = "line" \/ (ppc = "done" /\ pret # Nil)
             /\ \A i \in 1..Len(reqs) : reqs[i].endpoint # "/tokenize"

\* C19 witness: the prior context was decoded, the completion request was
\* answered with an error status, and the call ended there.
C19_Witness ==
    /\ Endpoints = <<"/detokenize", "/completion">>
    /\ Len(resps) = 2 /\ resps[2].kind = "http" /\ resps[2].status >= 400
    /\ ppc = "done" /\ pret # Nil

\* the line is blank or does not begin with the event-data marker
IsIgnorable(line) == line.head = "" \/ line.head # "data: "

\* C20: a stream line that is blank or does not begin with "data: " is
\* ignored: processing it invokes no callback, leaves the accumulator
\* unchanged, issues no request and does not end the call, which goes on to
\* read the next line.
C20_NonDataLineIgnored ==
    [][(/\ ppc = "line" /\ ~cancelled
        /\ IsIgnorable(body[Len(body)])
        /\ ppc' # ppc)
       => (/\ ppc' = "scan"
           /\ UNCHANGED <<fnCalls, nextContext, reqs, resps, pret, body>>)]_vars

\* C20 witness: a blank line and a comment line were processed and the call
\* is reading on, with no callback made and the accumulator as it was.
C20_Witness ==
    /\ body = <<BlankLine, CommentLine>> /\ ppc = "scan"
    /\ fnCalls = <<>> /\ nextContext = DecodedPrev \o prompt
    /\ Endpoints \in {<<"/completion">>, <<"/detokenize", "/completion">>}

InitPredict == StartIdle /\ PredictInit /\ CodecIdle /\ SharedIdle

SpecPredict == InitPredict /\ [][PredictNext]_vars

(***************************************************************************)
(* Properties of newLlama (SpecStart).                                     *)
(***************************************************************************)
\* the arguments pass the checks in front of the retry loop
ValidArgs == modelExists /\ runnerExists /\ adapters <= 1

\* the subprocesses spawned so far
Spawned == {i \in 1..Len(cmds) : cmds[i].state \in {"running", "exited"}}

\* C1: with an existing model, an existing runner and at most one adapter,
\* newLlama returns either a runner whose last Ping succeeded or the "max
\* retry exceeded" error after exactly 3 attempts (a failed spawn counts as
\* one); it never returns a runner whose probe failed and never makes a 4th
\* attempt.
C1_StartOutcome ==
    /\ Len(cmds) <= 3
    /\ (pc = "done" /\ ValidArgs) =>
          \/ ret = "llm" /\ probe = "ok" /\ Cur.state # "startfailed"
          \/ ret = "ErrMaxRetry" /\ Len(cmds) = 3
    /\ ret = "llm" => probe = "ok"

\* C1 witness: the third attempt is accepted after a failed spawn and a
\* timed-out attempt.
C1_Witness ==
    /\ pc = "done" /\ ret = "llm" /\ probe = "ok"
    /\ Len(cmds) = 3
    /\ cmds[1].state = "startfailed"
    /\ cmds[2].state = "exited" /\ cmds[2].waited

\* C2: when no probe succeeds on any of the 3 attempts, newLlama returns the
\* "max retry exceeded" error and at that moment no subprocess of any
\* attempt is running: each spawned one was cancelled and waited for.
C2_NoProcessLeftAfterExhaustion ==
    (pc = "done" /\ ValidArgs /\ probe # "ok") =>
        /\ ret = "ErrMaxRetry"
        /\ \A i \in Spawned :
             /\ cmds[i].state = "exited"
             /\ cmds[i].cancelled
             /\ cmds[i].waited

\* C2 witness: three subprocesses were spawned, none answered, all are gone.
C2_Witness ==
    /\ pc = "done" /\ ret = "ErrMaxRetry"
    /\ Spawned = {1, 2, 3}
    /\ \A i \in Spawned : cmds[i].state = "exited" /\ cmds[i].waited

\* C8 as stated: with more than one adapter newLlama fails with the
\* unsupported-adapter-count error and spawns nothing, whatever the other
\* arguments are.
C8_AdaptersAlwaysRejected ==
    (pc = "done" /\ adapters > 1) => (ret = "ErrAdapters" /\ cmds = <<>>)

\* C8 amended: with more than one adapter no attempt is ever made, and when
\* the model and the runner executable exist newLlama fails with the
\* unsupported-adapter-count error (otherwise with the error of os.Stat).
C8_AdaptersRejectedAfterStat ==
    adapters > 1 =>
        /\ cmds = <<>>
        /\ pc = "done" =>
             ret = IF ~modelExists THEN "ErrStatModel"
                   ELSE IF ~runnerExists THEN "ErrStatRunner"
                   ELSE "ErrAdapters"

\* C8 witness: two adapters and existing files end in the adapter error.
C8_Witness ==
    /\ pc = "done" /\ adapters = 2 /\ modelExists /\ runnerExists
    /\ ret = "ErrAdapters" /\ cmds = <<>>

\* C9: when the model path or the runner executable does not exist,
\* newLlama fails with the error of os.Stat before anything is spawned: no
\* port is chosen, no spawn is attempted, no retry is made.
C9_MissingFileFailsBeforeSpawn ==
    (~modelExists \/ ~runnerExists) =>
        /\ cmds = <<>>
        /\ try = 0
        /\ pc \notin {"loop", "start", "tick", "ping", "close", "wait"}
        /\ pc = "done" => ret \in {"ErrStatModel", "ErrStatRunner"}

\* C9 witness: the model exists, the runner executable does not.
C9_Witness ==
    /\ pc = "done" /\ modelExists /\ ~runnerExists
    /\ ret = "ErrStatRunner" /\ cmds = <<>>

\* C13: Close first cancels the context of the process and then blocks
\* until the subprocess has exited: whenever Close has returned the
\* subprocess is cancelled and no longer running; Close hands nothing to
\* newLlama, which goes on to the next attempt whatever the exit status.
C13_CloseCancelsThenWaits ==
    [][/\ \A i \in 1..Len(cmds') :
            cmds'[i].waited =>
                (cmds'[i].cancelled /\ cmds'[i].state = "exited"
                   /\ cmds'[i].exit # "none")
       /\ pc' = "wait" => cmds'[Len(cmds')].cancelled
       /\ (pc = "wait" /\ pc' # "wait") =>
            /\ cmds'[Len(cmds)].waited
            /\ pc' = "loop" /\ try' = try + 1 /\ ret' = ret]_vars

\* C13 witness: a subprocess that was closed exited with a failure status,
\* and the call still returned a runner from a later attempt.
C13_Witness ==
    /\ pc = "done" /\ ret = "llm"
    /\ \E i \in 1..Len(cmds) : cmds[i].waited /\ cmds[i].exit = "nonzero"

\* the attempts whose subprocess is running
Running == {i \in 1..Len(cmds) : cmds[i].state = "running"}

\* C16: during one newLlama call at most one subprocess of the call runs at
\* any time: every attempt before the current one either failed to spawn or
\* had its subprocess cancelled, exited and waited for, and a runner that
\* was closed is never the one returned.
C16_OneSubprocessAtATime ==
    /\ Cardinality(Running) <= 1
    /\ \A i \in 1..(Len(cmds) - 1) :
         \/ cmds[i].state = "startfailed"
         \/ cmds[i].state = "exited" /\ cmds[i].cancelled /\ cmds[i].waited
    /\ ret = "llm" =>
         (~Cur.cancelled /\ ~Cur.waited /\ Cur.state # "startfailed")

\* C16 witness: two attempts timed out and were closed, the third one runs
\* and is returned.
C16_Witness ==
    /\ pc = "done" /\ ret = "llm"
    /\ Len(cmds) = 3 /\ Running = {3}
    /\ \A i \in {1, 2} : cmds[i].state = "exited" /\ cmds[i].waited

\* C17 as stated: when newLlama returns a runner, the subprocess of the
\* accepted attempt is running and it is the one that answered the probe.
C17_ReturnedRunnerIsRunning ==
    ret = "llm" => (Cur.state = "running" /\ Cur.listening)

\* C18 as stated: newLlama always terminates: the call is never left in a
\* state in which it has not returned and can take no further step.
C18_StartTerminates ==
    pc = "done" \/ ENABLED StartNext

\* C22: every port chosen by an attempt is in [49152, 65535), and the port
\* passed to the subprocess as --port is the port the attempt's probes and
\* the returned runner's requests address.
C22_PortInRangeAndShared ==
    /\ \A i \in 1..Len(cmds) :
         /\ 49152 <= cmds[i].Port /\ cmds[i].Port < 65535
         /\ ListenPort(cmds[i]) = cmds[i].Port
         /\ PingTarget(cmds[i]) = ListenPort(cmds[i])
    /\ ret = "llm" => RequestTarget(Cur) = ListenPort(Cur)

\* C22 witness: an attempt on the lowest port was probed and timed out, and
\* the runner returned listens on the highest port and answered its probe.
C22_Witness ==
    /\ pc = "done" /\ ret = "llm" /\ probe = "ok"
    /\ Len(cmds) = 2
    /\ cmds[1].Port = 49152 /\ cmds[1].waited
    /\ Cur.Port = 65534 /\ Cur.PortArg = <<6, 5, 5, 3, 4>>
    /\ Cur.state = "running" /\ Cur.listening

InitStart == StartInit /\ PredictIdle /\ CodecIdle /\ SharedIdle

SpecStart == InitStart /\ [][StartNext]_vars

(***************************************************************************)
(* Properties of Encode and Decode (SpecCodec).                            *)
(***************************************************************************)
\* C10: Decode strips the leading whitespace of the /detokenize content, so
\* Decode(Encode(T)) is T whenever both succeed.
C10_DecodeEncodeRoundTrip ==
    (cLast = "decode" /\ cErr = Nil) => cDecoded = cText

InitCodec == StartIdle /\ PredictIdle /\ CodecInit /\ SharedIdle

SpecCodec == InitCodec /\ [][CodecNext]_vars

(***************************************************************************)
(* Properties of every operation of the HTTP client (SpecClient).          *)
(***************************************************************************)
\* the status of a response is not 2xx
NotSuccess(status) == status < 200 \/ status >= 300

\* the result the last of Encode, Decode, Embedding returned
LastResult ==
    CASE cLast = "encode" -> cTokens
      [] cLast = "decode" -> cDecoded
      [] cLast = "embed" -> cEmbedding
      [] OTHER -> <<>>

\* C12: for encode, decode, embed and predict, a response whose status is
\* not 2xx makes the operation fail with an error carrying the raw body
\* (when the body could be read), and no result is produced from it.
C12_NonSuccessStatusIsError ==
    /\ \A i \in 1..Len(resps) :
         (/\ reqs[i].endpoint = "/completion"
          /\ resps[i].kind # "fail"
          /\ NotSuccess(resps[i].status))
         => /\ ppc = "done" /\ pret # Nil
            /\ resps[i].kind = "http" => pret.msg = resps[i].raw
            /\ fnCalls = <<>>
    /\ (cLast # "none" /\ cResp.kind \in {"http", "readfail"}
            /\ NotSuccess(cResp.status))
         => /\ cErr # Nil
            /\ cResp.kind = "http" => cErr.msg = cResp.raw
            /\ LastResult = <<>>

InitClient ==
    /\ StartIdle /\ SharedIdle
    /\ \/ PredictInit /\ CodecIdle
       \/ PredictIdle /\ CodecInit

ClientNext ==
    \/ DecodeCall \/ DecodeRecv \/ PostSend \/ PostRecv
    \/ Scan \/ ProcessLine \/ EncodeSend \/ EncodeRecv
    \/ Cancel
    \/ CodecEncode \/ CodecDecode \/ CodecEmbed

SpecClient == InitClient /\ [][ClientNext]_vars

(***************************************************************************)
(* Properties of two Predict calls on one runner (SpecShared).             *)
(***************************************************************************)
\* the text Decode returns for the tokens when the server answers
DecodedOf(tokens) ==
    IF Len(tokens) = 0 THEN <<>>
    ELSE CutPrefix(ServerDetokenize(tokens), DecodeCutset)

\* the text of call c alone: its decoded prior context, its prompt and the
\* data records of its own stream
OwnText(c) ==
    DecodedOf(calls[c].prevContext) \o calls[c].prompt
        \o ContentOf(SelectSeq(calls[c].body, IsDataRecord))

\* C21: the text accumulator of a Predict call is local to the call: with
\* two calls on one runner, in sequence or interleaved, and SetOptions calls
\* in between, the accumulator of a call holds the text of that call alone,
\* so the prompt it sends and the final context it reports are computed
\* from its own prior context, its own prompt and its own stream.
C21_AccumulatorIsLocal ==
    \A c \in Calls :
        /\ calls[c].pc = "decode" => nextContexts[c] = <<>>
        /\ calls[c].pc \in {"post", "scan", "encode"} =>
              nextContexts[c] = OwnText(c)
        /\ calls[c].sent # <<>> =>
              calls[c].sent[1] = DecodedOf(calls[c].prevContext) \o calls[c].prompt
        /\ calls[c].final # <<>> =>
              calls[c].final[1] = ServerTokenize(OwnText(c))

\* C21 witness: both calls are in flight at once, each has read its stream
\* up to a stop record, a SetOptions call came between their requests, and
\* their texts differ.
C21_Witness ==
    /\ \A c \in Calls : calls[c].pc = "encode" /\ Len(calls[c].body) = 2
    /\ llmOptions.writes = 1
    /\ calls[1].opts # calls[2].opts
    /\ OwnText(1) # OwnText(2)
    /\ Len(calls[1].prevContext) > 0 /\ Len(calls[2].prompt) > 0

InitShared == StartIdle /\ PredictIdle /\ CodecIdle /\ SharedInit

SpecShared == InitShared /\ [][SharedNext]_vars

====
